---- MODULE Spec2Model ----
(***************************************************************************)
(* Datadog propagator for OpenTelemetry (propagator.go).                   *)
(*                                                                         *)
(* A text (Go string) is a sequence of one-character strings.  A uint64 is *)
(* four 16-bit limbs, least significant first, so that the 64-bit width    *)
(* of strconv.ParseUint / FormatUint is kept exactly.  A TraceID is 16     *)
(* bytes, a SpanID 8 bytes, as in go.opentelemetry.io/otel/trace.          *)
(***************************************************************************)
EXTENDS Integers, Sequences, FiniteSets, TLC

VARIABLES ctx, carrier, call, prev

vars == <<ctx, carrier, call, prev>>

\* ------------------------------------------------------------------ texts

DecChars == <<"0", "1", "2", "3", "4", "5", "6", "7", "8", "9">>

HexChars == DecChars \o <<"a", "b", "c", "d", "e", "f">>

UpperHexChars == <<"A", "B", "C", "D", "E", "F">>

IndexOf(chars, c) == CHOOSE i \in 1..Len(chars) : chars[i] = c

IsIn(chars, c) == \E i \in 1..Len(chars) : chars[i] = c

\* s[from:] of Go, from counted from 0
SliceFrom(s, from) == SubSeq(s, from + 1, Len(s))

RECURSIVE Repeat(_, _)
Repeat(c, n) == IF n <= 0 THEN <<>> ELSE <<c>> \o Repeat(c, n - 1)

\* ----------------------------------------------------------------- uint64

LimbBase == 65536

Zero64 == <<0, 0, 0, 0>>

IsZero64(u) == u = Zero64

\* n*base + d on 64 bits; carry > 0 is the overflow n1 < n || n1 > maxVal
\* (and n >= cutoff) of ParseUint
MulAdd64(u, base, d) ==
    LET t0 == u[1] * base + d
        t1 == u[2] * base + (t0 \div LimbBase)
        t2 == u[3] * base + (t1 \div LimbBase)
        t3 == u[4] * base + (t2 \div LimbBase)
    IN  [val |-> <<t0 % LimbBase, t1 % LimbBase, t2 % LimbBase, t3 % LimbBase>>,
         carry |-> t3 \div LimbBase]

\* u / base and u % base
DivMod64(u, base) ==
    LET t3 == u[4]
        t2 == (t3 % base) * LimbBase + u[3]
        t1 == (t2 % base) * LimbBase + u[2]
        t0 == (t1 % base) * LimbBase + u[1]
    IN  [quo |-> <<t0 \div base, t1 \div base, t2 \div base, t3 \div base>>,
         rem |-> t0 % base]

\* the digit value ParseUint gives a byte: '0'..'9', or a letter of either
\* case ('g'..'z' and every other byte are no digit of base 10 or 16)
DigitValue ==
    [c \in {HexChars[i] : i \in 1..16} \cup {UpperHexChars[i] : i \in 1..6} |->
        IF IsIn(HexChars, c) THEN IndexOf(HexChars, c) - 1
        ELSE IndexOf(UpperHexChars, c) + 9]

DigitOf(c) == IF c \in DOMAIN DigitValue THEN DigitValue[c] ELSE 99

RECURSIVE ParseUintFrom(_, _, _, _)
ParseUintFrom(s, base, i, n) ==
    IF i > Len(s) THEN [err |-> "nil", val |-> n]
    ELSE LET d == DigitOf(s[i])
             m == MulAdd64(n, base, d)
         IN  IF d >= base THEN [err |-> "ErrSyntax", val |-> Zero64]
             ELSE IF m.carry > 0 THEN [err |-> "ErrRange", val |-> Zero64]
             ELSE ParseUintFrom(s, base, i + 1, m.val)

\* strconv.ParseUint(s, base, 64) for base 10 or 16
ParseUint(s, base) ==
    IF s = <<>> THEN [err |-> "ErrSyntax", val |-> Zero64]
    ELSE ParseUintFrom(s, base, 1, Zero64)

RECURSIVE FormatDigits(_, _)
FormatDigits(u, base) ==
    IF IsZero64(u) THEN <<>>
    ELSE LET qr == DivMod64(u, base)
         IN  Append(FormatDigits(qr.quo, base), HexChars[qr.rem + 1])

\* strconv.FormatUint(u, base): lower case, no leading zeros, "0" for zero
FormatUint(u, base) ==
    IF IsZero64(u) THEN <<"0">> ELSE FormatDigits(u, base)

\* strconv.Atoi(s) with a 64-bit int: an optional sign, then ParseUint base
\* 10, then the range of int64.  sign is -1, 0 or 1 (the sign of the value).
Atoi(s) ==
    IF s = <<>> THEN [err |-> "ErrSyntax", sign |-> 0, mag |-> Zero64]
    ELSE LET neg == s[1] = "-"
             rest == IF s[1] = "+" \/ s[1] = "-" THEN SliceFrom(s, 1) ELSE s
             un == ParseUint(rest, 10)
             cutoffLimb == LimbBase \div 2
             over == IF neg
                     THEN un.val[4] > cutoffLimb
                          \/ (un.val[4] = cutoffLimb
                              /\ <<un.val[1], un.val[2], un.val[3]>> # <<0, 0, 0>>)
                     ELSE un.val[4] >= cutoffLimb
         IN  IF un.err # "nil" THEN [err |-> un.err, sign |-> 0, mag |-> Zero64]
             ELSE IF over THEN [err |-> "ErrRange", sign |-> 0, mag |-> Zero64]
             ELSE [err |-> "nil",
                   sign |-> IF IsZero64(un.val) THEN 0 ELSE IF neg THEN -1 ELSE 1,
                   mag |-> un.val]

\* mutant: the padding goes to the right
PadZeroRight(width, s) == s \o Repeat("0", width - Len(s))

\* fmt.Sprintf("%0<width>s", s): pad on the left with '0' up to width
PadZero(width, s) == Repeat("0", width - Len(s)) \o s

\* ------------------------------------------- go.opentelemetry.io/otel/trace

FlagsSampled == 1

ZeroBytes(n) == [i \in 1..n |-> 0]

\* TraceID.IsValid / SpanID.IsValid: not all zero
IDIsValid(id) == \E i \in 1..Len(id) : id[i] # 0

\* TraceID.String / SpanID.String: two lower-case hex characters per byte
RECURSIVE IDString(_)
IDString(id) ==
    IF id = <<>> THEN <<>>
    ELSE <<HexChars[(id[1] \div 16) + 1], HexChars[(id[1] % 16) + 1]>> \o IDString(Tail(id))

\* TraceIDFromHex (nbytes = 16) / SpanIDFromHex (nbytes = 8): the length must be
\* exact, every character one of 0-9a-f, and the identifier not all zero
IDFromHex(h, nbytes) ==
    IF Len(h) # 2 * nbytes THEN [err |-> "errInvalidLength", id |-> ZeroBytes(nbytes)]
    ELSE IF \E i \in 1..Len(h) : ~IsIn(HexChars, h[i])
    THEN [err |-> "errInvalidHexID", id |-> ZeroBytes(nbytes)]
    ELSE LET id == [i \in 1..nbytes |->
                       (IndexOf(HexChars, h[2 * i - 1]) - 1) * 16
                       + (IndexOf(HexChars, h[2 * i]) - 1)]
         IN  IF IDIsValid(id) THEN [err |-> "nil", id |-> id]
             ELSE [err |-> "errNilID", id |-> id]

\* trace.SpanContextConfig{} and trace.NewSpanContext
SpanContextConfig == [TraceID |-> ZeroBytes(16), SpanID |-> ZeroBytes(8),
                      TraceFlags |-> 0, Remote |-> FALSE]

NewSpanContext(scc) == scc

empty == NewSpanContext(SpanContextConfig)

IsValid(sc) == IDIsValid(sc.TraceID) /\ IDIsValid(sc.SpanID)

IsSampled(sc) == sc.TraceFlags % 2 = 1

\* trace.ContextWithRemoteSpanContext: the context holds sc marked remote
ContextWithRemoteSpanContext(parent, sc) == [sc EXCEPT !.Remote = TRUE]

\* trace.SpanFromContext(ctx).SpanContext(): the context is modelled by the
\* span context it holds (the zero value when it holds no span)
SpanContextFromContext(c) == c

\* ------------------------------------------------ propagation.TextMapCarrier

traceIDHeaderKey == "x-datadog-trace-id"

parentIDHeaderKey == "x-datadog-parent-id"

priorityHeaderKey == "x-datadog-sampling-priority"

notSampled == <<"0">>

isSampled == <<"1">>

EmptyCarrier == [k \in {} |-> <<>>]

Get(c, key) == IF key \in DOMAIN c THEN c[key] ELSE <<>>

Set(c, key, value) ==
    [k \in DOMAIN c \cup {key} |-> IF k = key THEN value ELSE c[k]]

\* ------------------------------------------------------------- propagator.go

\* mutant: the first 16 characters are kept instead of id[16:]
convertOTtoDDFirstSixteen(id) ==
    IF Len(id) < 16 THEN <<>>
    ELSE LET cut == IF Len(id) > 16 THEN SubSeq(id, 1, 16) ELSE id
             p == ParseUint(cut, 16)
         IN  IF p.err # "nil" THEN <<>> ELSE FormatUint(p.val, 10)

convertOTtoDD(id) ==
    IF Len(id) < 16 THEN <<>>
    ELSE LET cut == IF Len(id) > 16 THEN SliceFrom(id, 16) ELSE id
             p == ParseUint(cut, 16)
         IN  IF p.err # "nil" THEN <<>> ELSE FormatUint(p.val, 10)

\* mutant: a zero identifier is treated as absent
convertDDtoOTZeroEmpty(id) ==
    LET p == ParseUint(id, 10)
    IN  IF p.err # "nil" THEN [id |-> <<>>, ok |-> FALSE]
        ELSE IF IsZero64(p.val) THEN [id |-> <<>>, ok |-> TRUE]
        ELSE [id |-> FormatUint(p.val, 16), ok |-> TRUE]

\* mutant: the value is formatted in base 10 again
convertDDtoOTDecimal(id) ==
    LET p == ParseUint(id, 10)
    IN  IF p.err # "nil" THEN [id |-> <<>>, ok |-> FALSE]
        ELSE [id |-> FormatUint(p.val, 10), ok |-> TRUE]

convertDDtoOT(id) ==
    LET p == ParseUint(id, 10)
    IN  IF p.err # "nil" THEN [id |-> <<>>, ok |-> FALSE]
        ELSE [id |-> FormatUint(p.val, 16), ok |-> TRUE]

\* mutant: sampledInt >= 0
SamplingFlagsNonNegative(sampledInt) ==
    IF sampledInt.sign >= 0 THEN FlagsSampled ELSE 0

\* lines 125-127: the flags of a parsed sampling priority
SamplingFlags(sampledInt) == IF sampledInt.sign >= 1 THEN FlagsSampled ELSE 0

\* lines 95-104 and 110-119: a converted, non-empty identifier is padded to
\* the full width and decoded; an empty one leaves the field zero
PaddedIDFromHex(id, nbytes) ==
    IF id # <<>>
    THEN IDFromHex(IF Len(id) < 2 * nbytes THEN PadZero(2 * nbytes, id) ELSE id, nbytes)
    ELSE [err |-> "nil", id |-> ZeroBytes(nbytes)]

\* mutant: the sampling text is validated before the identifiers
extractSamplingFirst(traceID, spanID, sampled) ==
    LET t == convertDDtoOT(traceID)
        tid == PaddedIDFromHex(t.id, 16)
        s == convertDDtoOT(spanID)
        sid == PaddedIDFromHex(s.id, 8)
        sampledInt == Atoi(sampled)
    IN  IF sampledInt.err # "nil"
        THEN [sc |-> empty, err |-> "errInvalidSamplingPriorityHeader"]
        ELSE IF ~t.ok THEN [sc |-> empty, err |-> "errMalformedTraceID"]
        ELSE IF tid.err # "nil" THEN [sc |-> empty, err |-> "errInvalidTraceIDHeader"]
        ELSE IF ~s.ok THEN [sc |-> empty, err |-> "errMalformedSpanID"]
        ELSE IF sid.err # "nil" THEN [sc |-> empty, err |-> "errInvalidSpanIDHeader"]
        ELSE [sc |-> NewSpanContext([SpanContextConfig EXCEPT
                                        !.TraceID = tid.id,
                                        !.SpanID = sid.id,
                                        !.TraceFlags = SamplingFlags(sampledInt)]),
              err |-> "nil"]

extract(traceID, spanID, sampled) ==
    LET t == convertDDtoOT(traceID)
        tid == PaddedIDFromHex(t.id, 16)
        s == convertDDtoOT(spanID)
        sid == PaddedIDFromHex(s.id, 8)
        sampledInt == Atoi(sampled)
    IN  IF ~t.ok THEN [sc |-> empty, err |-> "errMalformedTraceID"]
        ELSE IF tid.err # "nil" THEN [sc |-> empty, err |-> "errInvalidTraceIDHeader"]
        ELSE IF ~s.ok THEN [sc |-> empty, err |-> "errMalformedSpanID"]
        ELSE IF sid.err # "nil" THEN [sc |-> empty, err |-> "errInvalidSpanIDHeader"]
        ELSE IF sampledInt.err # "nil"
        THEN [sc |-> empty, err |-> "errInvalidSamplingPriorityHeader"]
        ELSE [sc |-> NewSpanContext([SpanContextConfig EXCEPT
                                        !.TraceID = tid.id,
                                        !.SpanID = sid.id,
                                        !.TraceFlags = SamplingFlags(sampledInt)]),
              err |-> "nil"]

\* mutant: && in place of || in the validity check
InjectCarrierBothInvalid(c, car) ==
    LET sc == SpanContextFromContext(c)
        traceID == IDString(sc.TraceID)
        parentID == IDString(sc.SpanID)
        samplingFlag == IF IsSampled(sc) THEN isSampled ELSE notSampled
    IN  IF ~IDIsValid(sc.TraceID) /\ ~IDIsValid(sc.SpanID) THEN car
        ELSE IF traceID = <<>> \/ parentID = <<>> THEN car
        ELSE Set(Set(Set(car, traceIDHeaderKey, convertOTtoDD(traceID)),
                     parentIDHeaderKey, convertOTtoDD(parentID)),
                 priorityHeaderKey, samplingFlag)

\* Propagator.Inject: the carrier after the call
InjectCarrier(c, car) ==
    LET sc == SpanContextFromContext(c)
        traceID == IDString(sc.TraceID)
        parentID == IDString(sc.SpanID)
        samplingFlag == IF IsSampled(sc) THEN isSampled ELSE notSampled
    IN  IF ~IDIsValid(sc.TraceID) \/ ~IDIsValid(sc.SpanID) THEN car
        ELSE IF traceID = <<>> \/ parentID = <<>> THEN car
        ELSE Set(Set(Set(car, traceIDHeaderKey, convertOTtoDD(traceID)),
                     parentIDHeaderKey, convertOTtoDD(parentID)),
                 priorityHeaderKey, samplingFlag)

\* mutant: the early return on an error or an invalid result is missing
ExtractContextAlways(c, car) ==
    LET r == extract(Get(car, traceIDHeaderKey), Get(car, parentIDHeaderKey),
                     Get(car, priorityHeaderKey))
    IN  ContextWithRemoteSpanContext(c, r.sc)

\* Propagator.Extract: the context returned
ExtractContext(c, car) ==
    LET r == extract(Get(car, traceIDHeaderKey), Get(car, parentIDHeaderKey),
                     Get(car, priorityHeaderKey))
    IN  IF r.err # "nil" \/ ~IsValid(r.sc) THEN c
        ELSE ContextWithRemoteSpanContext(c, r.sc)

Fields == <<traceIDHeaderKey, parentIDHeaderKey, priorityHeaderKey>>

\* ------------------------------------------------------------------- inputs

\* the longest generated header text; the named samples below are longer
MaxTextLen == 2

RECURSIVE TextsUpTo(_, _)
TextsUpTo(alphabet, n) ==
    IF n = 0 THEN {<<>>}
    ELSE LET shorter == TextsUpTo(alphabet, n - 1)
         IN  shorter \cup {Append(t, c) : t \in shorter, c \in alphabet}

\* the identifiers of propagator_test.go
sampleTraceID == <<0, 0, 0, 0, 0, 0, 0, 0, 121, 212, 138, 57, 26, 119, 143, 166>>

ddTraceID == <<"8", "7", "7", "8", "7", "9", "3", "5", "5", "1", "5", "1", "3", "7", "5", "1", "4", "6", "2">>

sampleSpanID == <<83, 153, 92, 63, 66, 205, 138, 216>>

ddParentID == <<"6", "0", "2", "3", "9", "4", "7", "4", "0", "3", "3", "5", "8", "2", "1", "0", "7", "7", "6">>

traceIDSmall == <<0, 0, 0, 0, 0, 0, 0, 0, 0, 0, 0, 0, 7, 91, 205, 21>>

ddTraceIDSmall == <<"1", "2", "3", "4", "5", "6", "7", "8", "9">>

spanIDSmall == <<0, 0, 0, 0, 58, 222, 104, 177>>

ddParentIDSmall == <<"9", "8", "7", "6", "5", "4", "3", "2", "1">>

ddZeros19 == <<"0", "0", "0", "0", "0", "0", "0", "0", "0", "0", "0", "0", "0", "0", "0", "0", "0", "0", "0">>

\* 2^64 - 1 and 2^64 in decimal; 2^63 - 1 and 2^63
ddMaxUint64 == <<"1", "8", "4", "4", "6", "7", "4", "4", "0", "7", "3", "7", "0", "9", "5", "5", "1", "6", "1", "5">>

ddOverUint64 == <<"1", "8", "4", "4", "6", "7", "4", "4", "0", "7", "3", "7", "0", "9", "5", "5", "1", "6", "1", "6">>

ddMaxInt64 == <<"9", "2", "2", "3", "3", "7", "2", "0", "3", "6", "8", "5", "4", "7", "7", "5", "8", "0", "7">>

ddOverInt64 == <<"9", "2", "2", "3", "3", "7", "2", "0", "3", "6", "8", "5", "4", "7", "7", "5", "8", "0", "8">>

\* the trace ID of the comment at propagator.go:146, one whose low 64 bits
\* are zero, and the largest
traceIDWide == <<184, 16, 219, 162, 152, 3, 238, 97, 231, 199, 31, 240, 194, 201, 90, 157>>

traceIDHighOnly == <<0, 0, 0, 0, 0, 0, 0, 1, 0, 0, 0, 0, 0, 0, 0, 0>>

traceIDMax == <<255, 255, 255, 255, 255, 255, 255, 255, 255, 255, 255, 255, 255, 255, 255, 255>>

spanIDMax == <<255, 255, 255, 255, 255, 255, 255, 255>>

TraceIDs == {ZeroBytes(16), sampleTraceID, traceIDWide, traceIDHighOnly, traceIDMax}

SpanIDs == {ZeroBytes(8), sampleSpanID, spanIDSmall}

\* the span contexts a caller's context may hold
SpanContexts ==
    {NewSpanContext([SpanContextConfig EXCEPT !.TraceID = t, !.SpanID = s,
                                              !.TraceFlags = f]) :
        t \in TraceIDs, s \in SpanIDs, f \in {0, FlagsSampled}}

\* header texts a peer may send
HeaderTraceTexts == {<<"0">>, <<"x">>, ddTraceID, ddTraceIDSmall, ddOverUint64}

HeaderSpanTexts == {<<"0">>, ddParentID, ddParentIDSmall}

HeaderSamplingTexts == {<<>>, <<"0">>, <<"1">>, <<"-", "1">>, <<"x">>}

HeaderKeys == {traceIDHeaderKey, parentIDHeaderKey, priorityHeaderKey}

HeaderTexts(key) ==
    IF key = traceIDHeaderKey THEN HeaderTraceTexts
    ELSE IF key = parentIDHeaderKey THEN HeaderSpanTexts
    ELSE HeaderSamplingTexts

\* every carrier holding any of the three headers, each present or absent
Carriers ==
    UNION {{car \in [ks -> HeaderTraceTexts \cup HeaderSpanTexts \cup HeaderSamplingTexts] :
               \A k \in ks : car[k] \in HeaderTexts(k)} : ks \in SUBSET HeaderKeys}

\* the texts extract is called with
IDTexts ==
    TextsUpTo({"0", "1", "x"}, MaxTextLen)
    \cup {<<"9">>, ddZeros19, ddTraceID, ddParentID, ddTraceIDSmall, ddParentIDSmall,
          ddMaxUint64, ddOverUint64, <<"-", "1">>, <<"+", "1">>}

SamplingTexts ==
    TextsUpTo({"0", "1", "-"}, MaxTextLen)
    \cup {<<"2">>, <<"x">>, <<"+", "1">>, <<"-", "2">>, ddMaxInt64, ddOverInt64, <<"-">> \o ddOverInt64}

\* the hex texts convertOTtoDD is called with: blocks of 16 characters with
\* up to MaxTextLen characters before them, one or two and a half blocks, and
\* texts shorter than 16
HexBlocks == {IDString(sampleSpanID), IDString(spanIDSmall), IDString(spanIDMax),
              IDString(ZeroBytes(8)), SubSeq(IDString(traceIDWide), 1, 16)}

HexTexts ==
    LET short == TextsUpTo({"0", "1", "f"}, MaxTextLen)
    IN  short
        \cup {x \o b : x \in short, b \in HexBlocks}
        \cup {x \o a \o b : x \in short, a \in HexBlocks, b \in HexBlocks}
        \cup {a \o SubSeq(b, 1, 8) : a \in HexBlocks, b \in HexBlocks}
        \cup {a \o b \o SubSeq(a, 1, 8) : a \in HexBlocks, b \in HexBlocks}
        \cup {SubSeq(a, 1, 15) : a \in HexBlocks}

\* -------------------------------------------------------------- the machine

NoCall == [op |-> "none"]

\* a caller holding a context and a carrier
Init ==
    /\ ctx \in SpanContexts
    /\ carrier \in Carriers
    /\ call = NoCall
    /\ prev = NoCall

\* dd.Inject(ctx, carrier)
Inject ==
    /\ carrier' = InjectCarrier(ctx, carrier)
    /\ call' = [op |-> "Inject", ctxBefore |-> ctx, carrierBefore |-> carrier]
    /\ prev' = call
    /\ UNCHANGED ctx

\* ctx = dd.Extract(ctx, carrier); the record keeps what the inner extract returned
Extract ==
    /\ ctx' = ExtractContext(ctx, carrier)
    /\ call' = [op |-> "Extract", ctxBefore |-> ctx, carrierBefore |-> carrier,
                res |-> extract(Get(carrier, traceIDHeaderKey),
                                Get(carrier, parentIDHeaderKey),
                                Get(carrier, priorityHeaderKey))]
    /\ prev' = call
    /\ UNCHANGED carrier

Next == Inject \/ Extract

Spec == Init /\ [][Next]_vars

\* the package's functions called directly, as propagator_test.go calls extract
InitCalls ==
    /\ ctx = empty
    /\ carrier = EmptyCarrier
    /\ call = NoCall
    /\ prev = NoCall

CallExtract ==
    /\ call = NoCall
    /\ \E traceID \in IDTexts, spanID \in IDTexts, sampled \in SamplingTexts :
          call' = [op |-> "extract", traceID |-> traceID, spanID |-> spanID,
                   sampled |-> sampled, res |-> extract(traceID, spanID, sampled)]
    /\ UNCHANGED <<ctx, carrier, prev>>

CallConvertOTtoDD ==
    /\ call = NoCall
    /\ \E id \in HexTexts :
          call' = [op |-> "convertOTtoDD", id |-> id, res |-> convertOTtoDD(id)]
    /\ UNCHANGED <<ctx, carrier, prev>>

CallConvertDDtoOT ==
    /\ call = NoCall
    /\ \E id \in IDTexts :
          call' = [op |-> "convertDDtoOT", id |-> id, res |-> convertDDtoOT(id)]
    /\ UNCHANGED <<ctx, carrier, prev>>

NextCalls == CallExtract \/ CallConvertOTtoDD \/ CallConvertDDtoOT

SpecCalls == InitCalls /\ [][NextCalls]_vars

\* ------------------------------------------- reference notions of the claims
\* Decimal numerals read as texts, without the 64-bit arithmetic above: a
\* numeral is compared by length and then digit by digit, and the decimal
\* form of an identifier is computed on decimal digits.

RefDigit(c) == CHOOSE d \in 0..9 : DecChars[d + 1] = c

RefAllDecimal(t) ==
    t # <<>> /\ \A i \in 1..Len(t) : t[i] \in {DecChars[d] : d \in 1..10}

RECURSIVE RefStrip(_)
RefStrip(t) == IF t # <<>> /\ t[1] = "0" THEN RefStrip(Tail(t)) ELSE t

\* a <= b for decimal numerals without leading zeros
RefLeq(a, b) ==
    \/ Len(a) < Len(b)
    \/ /\ Len(a) = Len(b)
       /\ \/ a = b
          \/ \E i \in 1..Len(a) :
                /\ \A j \in 1..(i - 1) : a[j] = b[j]
                /\ RefDigit(a[i]) < RefDigit(b[i])

\* t is a decimal numeral of a value in 0..2^64-1
RefIsUint64Text(t) == RefAllDecimal(t) /\ RefLeq(RefStrip(t), ddMaxUint64)

\* t is a decimal numeral of a value in 1..2^64-1
RefIsID64Text(t) == RefIsUint64Text(t) /\ RefStrip(t) # <<>>

RefUnsigned(t) == IF t # <<>> /\ t[1] \in {"+", "-"} THEN Tail(t) ELSE t

\* t is an optionally signed decimal numeral of a value in -2^63..2^63-1
RefIsIntText(t) ==
    /\ RefAllDecimal(RefUnsigned(t))
    /\ RefLeq(RefStrip(RefUnsigned(t)), IF t[1] = "-" THEN ddOverInt64 ELSE ddMaxInt64)

\* the value of the integer text t is >= 1
RefAtLeastOne(t) == t[1] # "-" /\ RefStrip(RefUnsigned(t)) # <<>>

\* ds*m + c on decimal digits, least significant first, no leading zeros
RECURSIVE RefMulAdd(_, _, _)
RefMulAdd(ds, m, c) ==
    IF ds = <<>>
    THEN IF c = 0 THEN <<>> ELSE <<c % 10>> \o RefMulAdd(<<>>, m, c \div 10)
    ELSE <<(ds[1] * m + c) % 10>> \o RefMulAdd(Tail(ds), m, (ds[1] * m + c) \div 10)

RECURSIVE RefDigitsOfBytes(_, _)
RefDigitsOfBytes(bytes, acc) ==
    IF bytes = <<>> THEN acc
    ELSE RefDigitsOfBytes(Tail(bytes), RefMulAdd(acc, 256, bytes[1]))

\* the decimal text of the big-endian unsigned value of bytes
RefDecimalOfBytes(bytes) ==
    LET ds == RefDigitsOfBytes(bytes, <<>>)
    IN  IF ds = <<>> THEN <<"0">>
        ELSE [i \in 1..Len(ds) |-> DecChars[ds[Len(ds) + 1 - i] + 1]]

Low64(traceID) == SubSeq(traceID, 9, 16)

High64(traceID) == SubSeq(traceID, 1, 8)

\* ------------------------------------------------------------------- claims

ExtractedFrom(sc) == [sc EXCEPT !.Remote = TRUE]

\* C1: Extract returns a context carrying the newly extracted span context
\* (marked remote) exactly when the inner extract returned no error and a span
\* context with a non-zero trace ID and a non-zero span ID; in every other case
\* it returns the context it was given.
C1_ExtractOnlyOnSuccess ==
    call.op = "Extract" =>
        IF /\ call.res.err = "nil"
           /\ call.res.sc.TraceID # ZeroBytes(16)
           /\ call.res.sc.SpanID # ZeroBytes(8)
        THEN ctx = ExtractedFrom(call.res.sc)
        ELSE ctx = call.ctxBefore

\* an Extract whose inner extract failed, on a context that held a valid span
C1_Witness ==
    /\ call.op = "Extract"
    /\ call.res.err = "errInvalidSamplingPriorityHeader"
    /\ IsValid(call.ctxBefore)
    /\ ctx = call.ctxBefore

\* C2: Inject of a span context whose trace ID or span ID is all zero leaves
\* the carrier exactly as it was.
C2_InjectInvalidWritesNothing ==
    (/\ call.op = "Inject"
     /\ \/ call.ctxBefore.TraceID = ZeroBytes(16)
        \/ call.ctxBefore.SpanID = ZeroBytes(8))
    => carrier = call.carrierBefore

\* an Inject with a zero span ID only, into a carrier that held headers
C2_Witness ==
    /\ call.op = "Inject"
    /\ call.ctxBefore.TraceID # ZeroBytes(16)
    /\ call.ctxBefore.SpanID = ZeroBytes(8)
    /\ DOMAIN call.carrierBefore = {priorityHeaderKey}
    /\ carrier = call.carrierBefore

\* C3: Inject of a span context with non-zero trace and span IDs sets all
\* three headers: the trace header to the decimal text of the low 64 bits of
\* the trace ID, the parent header to the decimal text of the span ID, the
\* priority header to "1" when sampled and "0" otherwise.
C3_InjectWritesThree ==
    (/\ call.op = "Inject"
     /\ call.ctxBefore.TraceID # ZeroBytes(16)
     /\ call.ctxBefore.SpanID # ZeroBytes(8))
    => /\ HeaderKeys \subseteq DOMAIN carrier
       /\ carrier[traceIDHeaderKey] = RefDecimalOfBytes(Low64(call.ctxBefore.TraceID))
       /\ carrier[parentIDHeaderKey] = RefDecimalOfBytes(call.ctxBefore.SpanID)
       /\ carrier[priorityHeaderKey] =
             (IF call.ctxBefore.TraceFlags = FlagsSampled THEN <<"1">> ELSE <<"0">>)

\* an Inject of a sampled context whose trace ID has non-zero high 64 bits
C3_Witness ==
    /\ call.op = "Inject"
    /\ call.ctxBefore.TraceID = traceIDWide
    /\ call.ctxBefore.SpanID = sampleSpanID
    /\ call.ctxBefore.TraceFlags = FlagsSampled
    /\ carrier[traceIDHeaderKey] # Get(call.carrierBefore, traceIDHeaderKey)

\* C4: for trace and span texts that are decimal numerals of values in
\* 1..2^64-1 and a sampling text that is an integer numeral, extract returns
\* no error, a trace ID whose high 64 bits are zero and whose low 64 bits are
\* the trace text's value, and a span ID that is the span text's value.
C4_ExtractDecodesPadded ==
    (/\ call.op = "extract"
     /\ RefIsID64Text(call.traceID)
     /\ RefIsID64Text(call.spanID)
     /\ RefIsIntText(call.sampled))
    => /\ call.res.err = "nil"
       /\ High64(call.res.sc.TraceID) = ZeroBytes(8)
       /\ RefDecimalOfBytes(Low64(call.res.sc.TraceID)) = RefStrip(call.traceID)
       /\ RefDecimalOfBytes(call.res.sc.SpanID) = RefStrip(call.spanID)
       /\ Len(IDString(call.res.sc.TraceID)) = 32
       /\ Len(IDString(call.res.sc.SpanID)) = 16

\* extract of the small identifiers of the test, which need padding
C4_Witness ==
    /\ call.op = "extract"
    /\ call.traceID = ddTraceIDSmall
    /\ call.spanID = ddParentIDSmall
    /\ call.sampled = <<"0">>
    /\ call.res.sc.TraceID = traceIDSmall
    /\ call.res.sc.SpanID = spanIDSmall

RefTraceError(t) ==
    IF ~RefIsUint64Text(t) THEN "errMalformedTraceID"
    ELSE IF RefStrip(t) = <<>> THEN "errInvalidTraceIDHeader"
    ELSE "nil"

RefSpanError(s) ==
    IF ~RefIsUint64Text(s) THEN "errMalformedSpanID"
    ELSE IF RefStrip(s) = <<>> THEN "errInvalidSpanIDHeader"
    ELSE "nil"

\* C5: a trace text that is empty or no unsigned 64-bit decimal numeral gives
\* MalformedTraceID, one that is a numeral of zero gives InvalidTraceIDHeader;
\* with a valid trace text the span text gives MalformedSpanID and
\* InvalidSpanIDHeader under the same conditions; each comes with the
\* zero-value span context.
C5_ExtractClassifiesIdentifiers ==
    call.op = "extract" =>
        /\ ~RefIsUint64Text(call.traceID)
              => call.res = [sc |-> empty, err |-> "errMalformedTraceID"]
        /\ (RefIsUint64Text(call.traceID) /\ RefStrip(call.traceID) = <<>>)
              => call.res = [sc |-> empty, err |-> "errInvalidTraceIDHeader"]
        /\ (RefIsID64Text(call.traceID) /\ ~RefIsUint64Text(call.spanID))
              => call.res = [sc |-> empty, err |-> "errMalformedSpanID"]
        /\ (/\ RefIsID64Text(call.traceID)
            /\ RefIsUint64Text(call.spanID)
            /\ RefStrip(call.spanID) = <<>>)
              => call.res = [sc |-> empty, err |-> "errInvalidSpanIDHeader"]

\* extract of a valid trace text and nineteen zeros as the span text
C5_Witness ==
    /\ call.op = "extract"
    /\ call.traceID = ddTraceID
    /\ call.spanID = ddZeros19
    /\ call.res.err = "errInvalidSpanIDHeader"

\* C6: extract of two valid identifier texts and an empty sampling text
\* returns no error and an unsampled span context with the two identifiers.
C6_EmptySamplingAccepted ==
    (/\ call.op = "extract"
     /\ RefIsID64Text(call.traceID)
     /\ RefIsID64Text(call.spanID)
     /\ call.sampled = <<>>)
    => /\ call.res.err = "nil"
       /\ call.res.sc.TraceFlags = 0
       /\ RefDecimalOfBytes(Low64(call.res.sc.TraceID)) = RefStrip(call.traceID)
       /\ RefDecimalOfBytes(call.res.sc.SpanID) = RefStrip(call.spanID)

\* C7: extract returns the error of the first failing field in the order
\* trace, span, sampling: a failing trace text decides the error whatever the
\* span and sampling texts are, a failing span text after a valid trace text
\* decides it whatever the sampling text is, and the sampling error is
\* returned only when both identifier texts passed.
C7_FirstFailureWins ==
    call.op = "extract" =>
        /\ RefTraceError(call.traceID) # "nil"
              => call.res.err = RefTraceError(call.traceID)
        /\ (RefTraceError(call.traceID) = "nil" /\ RefSpanError(call.spanID) # "nil")
              => call.res.err = RefSpanError(call.spanID)
        /\ call.res.err = "errInvalidSamplingPriorityHeader"
              => (RefTraceError(call.traceID) = "nil" /\ RefSpanError(call.spanID) = "nil")

\* extract where all three texts fail: the trace error is the one returned
C7_Witness ==
    /\ call.op = "extract"
    /\ RefTraceError(call.traceID) = "errInvalidTraceIDHeader"
    /\ RefSpanError(call.spanID) = "errMalformedSpanID"
    /\ ~RefIsIntText(call.sampled)
    /\ call.res.err = "errInvalidTraceIDHeader"

LastSixteen(id) == SubSeq(id, Len(id) - 15, Len(id))

\* C8: convertOTtoDD of a hex text longer than 16 characters returns what it
\* returns for the text's last 16 characters, for every length above 16.
C8_TruncatesToLastSixteen ==
    (call.op = "convertOTtoDD" /\ Len(call.id) > 16)
    => call.res = convertOTtoDD(LastSixteen(call.id))

RoundTrip ==
    /\ call.op = "Extract"
    /\ prev.op = "Inject"
    /\ prev.carrierBefore = EmptyCarrier
    /\ prev.ctxBefore.TraceID # ZeroBytes(16)
    /\ prev.ctxBefore.SpanID # ZeroBytes(8)

RoundTripResult ==
    /\ call.res.err = "nil"
    /\ IsValid(ctx)
    /\ ctx.SpanID = prev.ctxBefore.SpanID
    /\ ctx.TraceFlags = prev.ctxBefore.TraceFlags
    /\ ctx.TraceID = ZeroBytes(8) \o Low64(prev.ctxBefore.TraceID)

\* C10 as stated: Inject of any span context with non-zero trace and span IDs
\* into an empty carrier, followed by Extract from that carrier, yields a valid
\* span context with the same span ID and sampled flag and the low 64 bits of
\* the trace ID; Extract never rejects what Inject wrote.
C10_RoundTripAlways == RoundTrip => RoundTripResult

\* C10 amended: the round trip holds when the low 64 bits of the trace ID are
\* not all zero; when they are, Inject writes the trace header "0", extract
\* rejects it with InvalidTraceIDHeader and Extract returns the context it was
\* given.
C10_RoundTripLowNonZero ==
    RoundTrip =>
        IF Low64(prev.ctxBefore.TraceID) # ZeroBytes(8)
        THEN RoundTripResult
        ELSE /\ carrier[traceIDHeaderKey] = <<"0">>
             /\ call.res.err = "errInvalidTraceIDHeader"
             /\ ctx = call.ctxBefore

\* a round trip of a sampled context whose trace ID has non-zero high 64 bits
C10_Witness ==
    /\ RoundTrip
    /\ prev.ctxBefore.TraceID = traceIDWide
    /\ prev.ctxBefore.TraceFlags = FlagsSampled
    /\ ctx.TraceID = ZeroBytes(8) \o Low64(traceIDWide)
    /\ ctx.Remote

====
